---- MODULE Spec2Model ----
(***************************************************************************)
(* State-machine model of LibraryApp (src/libraryManager_x86.py): the      *)
(* member registry, the book catalog, the loan ledger, fine settlement and *)
(* backup restore, together with the widgets the handlers read their       *)
(* arguments from (tables, combo boxes, the member-details search).        *)
(*                                                                         *)
(* Text values are sequences of one-character strings, so that strip(),    *)
(* replace() and the substring test of the source are computed and not     *)
(* assumed.  A date string 'YYYY-MM-DD' is the triple <<y, m, d>>; the     *)
(* clock is the day number counted from 1970-01-01.  Python's None and     *)
(* the empty string are both the empty sequence (the source only tests     *)
(* them for truthiness).                                                   *)
(***************************************************************************)
EXTENDS Integers, Sequences, FiniteSets, TLC

(* ---------------------------- bounds ---------------------------------- *)
MaxMembers == 2
MaxBooks == 2
MaxLoans == 2
MaxDay == 2
MaxCopies == 2

(* ----------------------- program constants ---------------------------- *)
DefaultLoanPeriod == 14
DefaultFinePerDay == 1000

(* day number of 2024-02-27, the first day of the modelled clock: the     *)
(* modelled days run over the end of February of a leap year              *)
Day0 == 19780

(* ------------------------------ text ---------------------------------- *)
None == <<>>

IsBlank(c) == c = " "

RECURSIVE LStrip(_)
LStrip(s) == IF s # <<>> /\ IsBlank(Head(s)) THEN LStrip(Tail(s)) ELSE s

RECURSIVE RStrip(_)
RStrip(s) ==
    IF s # <<>> /\ IsBlank(s[Len(s)]) THEN RStrip(SubSeq(s, 1, Len(s) - 1)) ELSE s

\* str.strip()
Strip(s) == RStrip(LStrip(s))

\* str.replace(a, b) for one-character a and b
Replace(s, a, b) == [i \in 1..Len(s) |-> IF s[i] = a THEN b ELSE s[i]]

\* the Python test `q in s` on strings
Contains(q, s) ==
    \E i \in 0..(Len(s) - Len(q)) : SubSeq(s, i + 1, i + Len(q)) = q

\* dict.get(key, default)
Get(d, key, default) == IF key \in DOMAIN d THEN d[key] ELSE default

\* dict.update(u): the keys of u are set, the others are kept
Update(d, u) == u @@ d

\* next((x for x in seq if P(x)), None) as an index: 0 when there is none
FirstIndex(seq, P(_)) ==
    IF \E i \in 1..Len(seq) : P(seq[i])
    THEN CHOOSE i \in 1..Len(seq) : P(seq[i]) /\ \A j \in 1..(i - 1) : ~P(seq[j])
    ELSE 0

\* [x for x in seq if P(x)]
Filter(seq, P(_)) == SelectSeq(seq, P)

Range(seq) == {seq[i] : i \in 1..Len(seq)}

Max(a, b) == IF a >= b THEN a ELSE b

(* ------------------------------ dates --------------------------------- *)
\* datetime.date(y, m, d) as a day number (proleptic Gregorian calendar)
DaysFromCivil(y, m, d) ==
    LET yy  == IF m <= 2 THEN y - 1 ELSE y
        era == yy \div 400
        yoe == yy - era * 400
        mp  == IF m > 2 THEN m - 3 ELSE m + 9
        doy == (153 * mp + 2) \div 5 + d - 1
        doe == yoe * 365 + yoe \div 4 - yoe \div 100 + doy
    IN  era * 146097 + doe - 719468

\* date.strftime("%Y-%m-%d"): the year, month and day fields of a day number
StrfTime(z) ==
    LET zz  == z + 719468
        era == zz \div 146097
        doe == zz - era * 146097
        yoe == (doe - doe \div 1460 + doe \div 36524 - doe \div 146096) \div 365
        doy == doe - (365 * yoe + yoe \div 4 - yoe \div 100)
        mp  == (5 * doy + 2) \div 153
        d   == doy - (153 * mp + 2) \div 5 + 1
        m   == IF mp < 10 THEN mp + 3 ELSE mp - 9
        y   == yoe + era * 400 + (IF m <= 2 THEN 1 ELSE 0)
    IN  <<y, m, d>>

\* datetime.strptime(s, "%Y-%m-%d")
StrpTime(s) == DaysFromCivil(s[1], s[2], s[3])

(* ------------------------------ inputs -------------------------------- *)
\* what the user can type into the digits-only student-id field
StudentIdInputs == {<<>>, <<"1">>, <<"2">>}
OneStudentId == {<<"1">>}
TwoStudentIds == {<<"1">>, <<"2">>}
NationalIdInputs == {<<"7">>}
PhoneInputs == {<<"9">>}
FirstNameInputs == {<<"n">>}
LastNameInputs == {<<"f">>}

\* what the user can type into the title, author and publish-date fields
TitleInputs == {<<>>, <<"a">>, <<" ", "a">>, <<"b", " ", "c">>}
OneTitle == {<<" ", "a">>}
AuthorInputs == {<<"x">>}
PublishInputs == {<<"1">>, <<"2">>}
OnePublish == {<<"1">>}
CopiesInputs == 1..MaxCopies

\* the day counts the loan and renewal dialogs are answered with
PeriodInputs == {1}
RenewInputs == {1}

\* the values the settings page is saved with
SettingsPeriodInputs == {DefaultLoanPeriod}
FinePerDayInputs == {0, DefaultFinePerDay}

\* two titles, one with a space in it
EditionTitles == {<<"a">>, <<"b", " ", "c">>}

\* placeholder texts shown for a book without title or author
NoTitle == <<"-", "t">>
NoAuthor == <<"-", "a">>

(* ------------------------------ state --------------------------------- *)
VARIABLES
    members,              \* self.members
    books,                \* self.books
    loans,                \* self.loans
    settings,             \* self.settings
    data_file,            \* the content of DATA_FILE: <<>> or <<document>>
    today,                \* datetime.date.today() as a day number
    members_table,        \* self.members_table: the student-id cell of each row
    books_table,          \* self.books_table: the title and author cells of each row
    active_loans_table,   \* self.active_loans_table: the id cell of each row
    loan_member_combo,    \* self.loan_member_combo: the data of each item
    loan_book_combo,      \* self.loan_book_combo: the data of each item
    member_detail_search, \* self.member_detail_search: its text
    selected_member_id,   \* self.selected_member_id
    last                  \* the handler that ran last, its arguments and its outcome

store == <<members, books, loans, settings>>
widgets == <<members_table, books_table, active_loans_table, loan_member_combo,
             loan_book_combo, member_detail_search, selected_member_id>>
vars == <<members, books, loans, settings, data_file, today, members_table,
          books_table, active_loans_table, loan_member_combo, loan_book_combo,
          member_detail_search, selected_member_id, last>>

\* the record kept in `last`: the handler, its outcome, the text key and the
\* numeric id it acted on, a number it read, and the answer given to its dialog
Outcome(op, out, key, id, val, yes) ==
    [op |-> op, out |-> out, key |-> key, id |-> id, val |-> val, yes |-> yes]

IsActive(l) == Get(l, "return_date", None) = None

(* ------------------------- persistence -------------------------------- *)
\* A JSON file.  type is "missing" (no such file), "invalid" (not JSON),
\* "array" (JSON whose top level is no mapping) or "object"; an object's
\* fields are those of `value`, and its settings field is itself
\* [type |-> "object", value |-> mapping] or [type |-> "null"].  Lists, texts,
\* numbers, booleans and None inside are written and read back as they are.
JsonObject(value) == [type |-> "object", value |-> value]
JsonNull == [type |-> "null"]

\* save_data(), the dictionary it writes
Document(m, b, l, s) == [members |-> m, books |-> b, loans |-> l, settings |-> s]

\* json.dump of that dictionary
JsonDump(doc) ==
    JsonObject([members |-> doc.members, books |-> doc.books, loans |-> doc.loans,
                settings |-> JsonObject(doc.settings)])

\* a save that leaves the loans out of the file
SaveDataWithoutLoans(m, b, l, s) == <<JsonDump(Document(m, b, <<>>, s))>>

\* save_data(): the whole document overwrites DATA_FILE
SaveData(m, b, l, s) == <<JsonDump(Document(m, b, l, s))>>

\* the settings a new process starts with
InitialSettings == [default_loan_period |-> DefaultLoanPeriod,
                    fine_per_day |-> DefaultFinePerDay]

\* DATA_FILE as load_data finds it
FileContent == IF data_file = <<>> THEN [type |-> "missing"] ELSE data_file[1]

\* a load that takes the collections from the file and keeps the settings
LoadDataKeepSettings(d, m, b, l, s) ==
    IF d.type # "object"
    THEN [members |-> m, books |-> b, loans |-> l, settings |-> s, out |-> "error"]
    ELSE [members |-> Get(d.value, "members", <<>>),
          books |-> Get(d.value, "books", <<>>),
          loans |-> Get(d.value, "loans", <<>>),
          settings |-> s, out |-> "ok"]

\* load_data() on the file d, with m, b, l, s in memory: no file, nothing is
\* read; open() or json.load() or d.get raising, the warning is shown before
\* the first assignment; settings.update raising, it is shown after the three
\* collections have been assigned
LoadData(d, m, b, l, s) ==
    IF d.type = "missing"
    THEN [members |-> m, books |-> b, loans |-> l, settings |-> s, out |-> "no_file"]
    ELSE IF d.type # "object"
    THEN [members |-> m, books |-> b, loans |-> l, settings |-> s, out |-> "error"]
    ELSE LET st == Get(d.value, "settings", JsonObject(<<>>)) IN
         [members |-> Get(d.value, "members", <<>>),
          books |-> Get(d.value, "books", <<>>),
          loans |-> Get(d.value, "loans", <<>>),
          settings |-> IF st.type = "object" THEN Update(s, st.value) ELSE s,
          out |-> IF st.type = "object" THEN "ok" ELSE "error"]

(* --------------------------- UI refresh ------------------------------- *)
\* load_members_table(): one row per member, column 0 is the student id
LoadMembersTable(m) == [i \in 1..Len(m) |-> Get(m[i], "student_id", <<>>)]

TitleCell(b) ==
    IF Get(b, "title", NoTitle) = <<>> THEN NoTitle ELSE Get(b, "title", NoTitle)

AuthorCell(b) ==
    IF Get(b, "author", NoAuthor) = <<>> THEN NoAuthor ELSE Get(b, "author", NoAuthor)

\* load_books_table(): one row per book, columns 0 and 1 are title and author
LoadBooksTable(b) == [i \in 1..Len(b) |-> <<TitleCell(b[i]), AuthorCell(b[i])>>]

\* load_active_loans(): one row per loan without return date, column 0 is its id
LoadActiveLoans(l) ==
    LET act == Filter(l, IsActive) IN [i \in 1..Len(act) |-> Get(act[i], "id", 0)]

\* update_loan_combos(), member part: the data of the items after the placeholder
MemberComboItems(m) == [i \in 1..Len(m) |-> Get(m[i], "student_id", None)]

BookInCombo(b) == Get(b, "available_copies", 0) > 0

\* update_loan_combos(), book part: only books with a copy available are listed
BookComboItems(b) ==
    LET av == Filter(b, BookInCombo) IN [i \in 1..Len(av) |-> Get(av[i], "id", None)]

(* ------------------------------ Init ---------------------------------- *)
Init ==
    /\ members = <<>>
    /\ books = <<>>
    /\ loans = <<>>
    /\ settings = [default_loan_period |-> DefaultLoanPeriod,
                   fine_per_day |-> DefaultFinePerDay]
    /\ data_file = <<>>
    /\ today = Day0
    /\ members_table = <<>>
    /\ books_table = <<>>
    /\ active_loans_table = <<>>
    /\ loan_member_combo = <<>>
    /\ loan_book_combo = <<>>
    /\ member_detail_search = <<>>
    /\ selected_member_id = None
    /\ last = Outcome("init", "ok", <<>>, 0, 0, FALSE)

\* the calendar day changes between two handlers
Tick ==
    /\ today < Day0 + MaxDay
    /\ today' = today + 1
    /\ UNCHANGED <<store, data_file, widgets, last>>

(* --------------------------- member ops ------------------------------- *)
\* a lookup by the national id instead of the student id
HasNationalId(m, sid) == Get(m, "national_id", None) = sid

HasStudentId(m, sid) == Get(m, "student_id", None) = sid

AddMember(sid_text, nid, phone, fn, ln) ==
    LET sid == Strip(sid_text)
        member == [student_id |-> sid, national_id |-> Strip(nid),
                   phone |-> Strip(phone), first_name |-> Strip(fn),
                   last_name |-> Strip(ln)]
    IN  IF sid = <<>>
        THEN /\ last' = Outcome("add_member", "no_student_id", sid, 0, 0, FALSE)
             /\ UNCHANGED <<store, data_file, today, widgets>>
        ELSE IF \E i \in 1..Len(members) : HasStudentId(members[i], sid)
        THEN /\ last' = Outcome("add_member", "duplicate", sid, 0, 0, FALSE)
             /\ UNCHANGED <<store, data_file, today, widgets>>
        ELSE /\ Len(members) < MaxMembers
             /\ members' = Append(members, member)
             /\ data_file' = SaveData(members', books, loans, settings)
             /\ members_table' = LoadMembersTable(members')
             /\ loan_member_combo' = MemberComboItems(members')
             /\ loan_book_combo' = BookComboItems(books)
             /\ last' = Outcome("add_member", "ok", sid, 0, 0, FALSE)
             /\ UNCHANGED <<books, loans, settings, today, books_table,
                            active_loans_table, member_detail_search,
                            selected_member_id>>

\* edit_member: the row's member is edited in a modal dialog; `save` tells
\* whether the dialog's save button was pressed or the dialog was closed
EditMember(row, save, sid_text, nid, phone, fn, ln) ==
    LET sid == members_table[row]
        i == FirstIndex(members, LAMBDA m : HasStudentId(m, sid))
        fields == [student_id |-> Strip(sid_text), national_id |-> Strip(nid),
                   phone |-> Strip(phone), first_name |-> Strip(fn),
                   last_name |-> Strip(ln)]
    IN  IF i = 0
        THEN /\ last' = Outcome("edit_member", "not_found", sid, 0, 0, FALSE)
             /\ UNCHANGED <<store, data_file, today, widgets>>
        ELSE IF ~save
        THEN UNCHANGED vars
        ELSE /\ members' = [members EXCEPT ![i] = Update(@, fields)]
             /\ data_file' = SaveData(members', books, loans, settings)
             /\ members_table' = LoadMembersTable(members')
             /\ loan_member_combo' = MemberComboItems(members')
             /\ loan_book_combo' = BookComboItems(books)
             /\ last' = Outcome("edit_member", "ok", sid, 0, 0, TRUE)
             /\ UNCHANGED <<books, loans, settings, today, books_table,
                            active_loans_table, member_detail_search,
                            selected_member_id>>

\* the test of delete_member: some loan of the member has no return date
\* a lookup that counts only the loans already returned
HasReturnedLoan(sid) ==
    \E i \in 1..Len(loans) :
        Get(loans[i], "member_id", None) = sid /\ ~IsActive(loans[i])

HasActiveLoan(sid) ==
    \E i \in 1..Len(loans) :
        Get(loans[i], "member_id", None) = sid /\ IsActive(loans[i])

DeleteMember(row, yes) ==
    LET sid == members_table[row] IN
    IF HasActiveLoan(sid)
    THEN /\ last' = Outcome("delete_member", "has_loan", sid, 0, 0, FALSE)
         /\ UNCHANGED <<store, data_file, today, widgets>>
    ELSE IF ~yes
    THEN UNCHANGED vars
    ELSE /\ members' = Filter(members, LAMBDA m : ~HasStudentId(m, sid))
         /\ data_file' = SaveData(members', books, loans, settings)
         /\ members_table' = LoadMembersTable(members')
         /\ loan_member_combo' = MemberComboItems(members')
         /\ loan_book_combo' = BookComboItems(books)
         /\ last' = Outcome("delete_member", "ok", sid, 0, 0, TRUE)
         /\ UNCHANGED <<books, loans, settings, today, books_table,
                        active_loans_table, member_detail_search,
                        selected_member_id>>

(* ---------------------------- book ops -------------------------------- *)
\* an id that leaves the publish date out
TitleAuthorId(title, author, publish) ==
    Replace(title \o <<"_">> \o author, " ", "_")

\* add_book: f"{title}_{author}_{publish}".replace(" ", "_")
BookId(title, author, publish) ==
    Replace(title \o <<"_">> \o author \o <<"_">> \o publish, " ", "_")

\* save_book: f"{new_title}_{new_author}".replace(" ", "_")
EditedBookId(title, author) == Replace(title \o <<"_">> \o author, " ", "_")

HasBookId(b, id) == Get(b, "id", None) = id

AddBook(title_text, author_text, publish_text, copies) ==
    LET title == Strip(title_text)
        author == Strip(author_text)
        publish == Strip(publish_text)
        book_id == BookId(title, author, publish)
        i == FirstIndex(books, LAMBDA b : HasBookId(b, book_id))
        new == [id |-> book_id, title |-> title, author |-> author,
                publish_date |-> publish, total_copies |-> copies,
                available_copies |-> copies, is_borrowed |-> FALSE]
    IN  IF title = <<>> \/ author = <<>>
        THEN /\ last' = Outcome("add_book", "no_title_or_author", book_id, 0, 0, FALSE)
             /\ UNCHANGED <<store, data_file, today, widgets>>
        ELSE /\ IF i # 0
                THEN /\ Get(books[i], "total_copies", 0) + copies <= MaxCopies
                     /\ Get(books[i], "available_copies", 0) + copies <= MaxCopies
                     /\ books' = [books EXCEPT ![i] = Update(@,
                            [total_copies |-> Get(@, "total_copies", 0) + copies,
                             available_copies |-> Get(@, "available_copies", 0) + copies])]
                ELSE /\ Len(books) < MaxBooks
                     /\ books' = Append(books, new)
             /\ data_file' = SaveData(members, books', loans, settings)
             /\ books_table' = LoadBooksTable(books')
             /\ loan_member_combo' = MemberComboItems(members)
             /\ loan_book_combo' = BookComboItems(books')
             /\ last' = Outcome("add_book", IF i # 0 THEN "merged" ELSE "ok",
                                book_id, 0, 0, FALSE)
             /\ UNCHANGED <<members, loans, settings, today, members_table,
                            active_loans_table, member_detail_search,
                            selected_member_id>>

\* normalize_text of edit_book: Arabic yeh, kaf and heh become the Persian
\* letters (written here "Y" -> "y", "K" -> "k", "H" -> "h"), then strip()
NormalizeText(text) ==
    Strip(Replace(Replace(Replace(text, "Y", "y"), "K", "k"), "H", "h"))

\* edit_book, the lookup of the selected row's book: the first book whose
\* normalized title is the row's; failing that, the first whose title and
\* author are the row's.  0 when there is none.
EditBookLookup(row) ==
    LET selected_title == NormalizeText(books_table[row][1])
        selected_author == NormalizeText(books_table[row][2])
        by_title == FirstIndex(books,
            LAMBDA b : NormalizeText(Get(b, "title", <<>>)) = selected_title)
        by_both == FirstIndex(books,
            LAMBDA b : /\ NormalizeText(Get(b, "title", <<>>)) = selected_title
                       /\ selected_author # <<>>
                       /\ NormalizeText(Get(b, "author", <<>>)) = selected_author)
    IN  IF by_title # 0 THEN by_title ELSE by_both

\* save_book: the dictionary is updated first; the difference of the totals
\* and the change of title or author are then read from the updated dictionary
SaveBook(book, new_title, new_author, new_publish, new_total) ==
    LET b1 == Update(book, [title |-> new_title, author |-> new_author,
                            publish_date |-> new_publish, total_copies |-> new_total])
        diff == new_total - Get(b1, "total_copies", 0)
        b2 == Update(b1, [available_copies |->
                              Max(0, Get(b1, "available_copies", 0) + diff)])
    IN  IF new_title # Get(b2, "title", None) \/ new_author # Get(b2, "author", None)
        THEN Update(b2, [id |-> EditedBookId(new_title, new_author)])
        ELSE b2

\* an edit that also writes the new title into the loans of the book
EditBookRetargetsLoans(row, save, title_text, author_text, publish_text, new_total) ==
    LET i == EditBookLookup(row) IN
    /\ i # 0
    /\ save
    /\ books' = [books EXCEPT ![i] = SaveBook(@, Strip(title_text),
                     Strip(author_text), Strip(publish_text), new_total)]
    /\ loans' = [k \in 1..Len(loans) |->
                    IF Get(loans[k], "book_id", None) = Get(books[i], "id", None)
                    THEN Update(loans[k], [book_title |-> Strip(title_text)])
                    ELSE loans[k]]
    /\ data_file' = SaveData(members, books', loans', settings)
    /\ books_table' = LoadBooksTable(books')
    /\ last' = Outcome("edit_book", "ok", Get(books[i], "id", None), i, 0, TRUE)
    /\ UNCHANGED <<members, settings, today, members_table,
                   active_loans_table, loan_member_combo, loan_book_combo,
                   member_detail_search, selected_member_id>>

EditBook(row, save, title_text, author_text, publish_text, new_total) ==
    LET i == EditBookLookup(row) IN
    IF i = 0
    THEN /\ last' = Outcome("edit_book", "not_found", books_table[row][1], 0, 0, FALSE)
         /\ UNCHANGED <<store, data_file, today, widgets>>
    ELSE IF ~save
    THEN UNCHANGED vars
    ELSE /\ books' = [books EXCEPT ![i] = SaveBook(@, Strip(title_text),
                          Strip(author_text), Strip(publish_text), new_total)]
         /\ data_file' = SaveData(members, books', loans, settings)
         /\ books_table' = LoadBooksTable(books')
         /\ last' = Outcome("edit_book", "ok", Get(books[i], "id", None), i, 0, TRUE)
         /\ UNCHANGED <<members, loans, settings, today, members_table,
                        active_loans_table, loan_member_combo, loan_book_combo,
                        member_detail_search, selected_member_id>>

HasTitleAuthor(b, title, author) ==
    Get(b, "title", None) = title /\ Get(b, "author", None) = author

\* delete_book, the books that stay: those with another title or author
DeleteBookKeeps(bs, title, author) ==
    Filter(bs, LAMBDA b : ~HasTitleAuthor(b, title, author))

DeleteBook(row, yes) ==
    LET title == books_table[row][1]
        author == books_table[row][2]
        i == FirstIndex(books, LAMBDA b : HasTitleAuthor(b, title, author))
    IN  IF i = 0
        THEN /\ last' = Outcome("delete_book", "not_found", title, 0, 0, FALSE)
             /\ UNCHANGED <<store, data_file, today, widgets>>
        ELSE IF Get(books[i], "available_copies", 0) < Get(books[i], "total_copies", 0)
        THEN /\ last' = Outcome("delete_book", "on_loan", title, i, 0, FALSE)
             /\ UNCHANGED <<store, data_file, today, widgets>>
        ELSE IF ~yes
        THEN UNCHANGED vars
        ELSE /\ books' = DeleteBookKeeps(books, title, author)
             /\ data_file' = SaveData(members, books', loans, settings)
             /\ books_table' = LoadBooksTable(books')
             /\ loan_member_combo' = MemberComboItems(members)
             /\ loan_book_combo' = BookComboItems(books')
             /\ last' = Outcome("delete_book", "ok", title, i, 0, TRUE)
             /\ UNCHANGED <<members, loans, settings, today, members_table,
                            active_loans_table, member_detail_search,
                            selected_member_id>>

(* ---------------------------- loan ops -------------------------------- *)
HasLoanId(l, id) == Get(l, "id", 0) = id

\* loan_book, the record of the new loan
\* a new loan that already carries the fields of a settled fine
NewLoanWithFine(member_id, book_id, i, period) ==
    [id |-> Len(loans) + 1,
     member_id |-> member_id,
     book_id |-> book_id,
     book_title |-> IF i # 0 THEN Get(books[i], "title", <<>>) ELSE book_id,
     loan_date |-> StrfTime(today),
     due_date |-> StrfTime(today + period),
     return_date |-> None,
     loan_period |-> period,
     fine_paid |-> TRUE,
     unpaid_fine |-> 0]

NewLoan(member_id, book_id, i, period) ==
    [id |-> Len(loans) + 1,
     member_id |-> member_id,
     book_id |-> book_id,
     book_title |-> IF i # 0 THEN Get(books[i], "title", <<>>) ELSE book_id,
     loan_date |-> StrfTime(today),
     due_date |-> StrfTime(today + period),
     return_date |-> None,
     loan_period |-> period]

\* loan_book, the book after one copy has been handed out
LoanedBook(b) ==
    LET left == Max(0, Get(b, "available_copies", 0) - 1)
        b1 == Update(b, [available_copies |-> left])
    IN  IF left = 0 THEN Update(b1, [is_borrowed |-> TRUE]) ELSE b1

\* loan_book: member_id and book_id are the data of the items chosen in the
\* two combo boxes (the empty text for the placeholder item); `accepted` tells
\* whether the period dialog was accepted
LoanBook(member_id, book_id, accepted, period) ==
    LET i == FirstIndex(books, LAMBDA b : HasBookId(b, book_id))
        before == IF i # 0 THEN Get(books[i], "available_copies", 0) ELSE 0
    IN  IF member_id = <<>> \/ book_id = <<>>
        THEN /\ last' = Outcome("loan_book", "no_selection", book_id, 0, 0, FALSE)
             /\ UNCHANGED <<store, data_file, today, widgets>>
        ELSE IF ~accepted
        THEN UNCHANGED vars
        ELSE /\ Len(loans) < MaxLoans
             /\ today + period <= Day0 + MaxDay
             /\ books' = IF i # 0 THEN [books EXCEPT ![i] = LoanedBook(@)] ELSE books
             /\ loans' = Append(loans, NewLoan(member_id, book_id, i, period))
             /\ data_file' = SaveData(members, books', loans', settings)
             /\ active_loans_table' = LoadActiveLoans(loans')
             /\ loan_member_combo' = MemberComboItems(members)
             /\ loan_book_combo' = BookComboItems(books')
             /\ books_table' = LoadBooksTable(books')
             /\ last' = Outcome("loan_book", "ok", book_id, Len(loans) + 1, before, TRUE)
             /\ UNCHANGED <<members, settings, today, members_table,
                            member_detail_search, selected_member_id>>

\* return_book, the fine of a loan returned today
\* the days since the loan was issued
DaysSinceLoan(l) ==
    LET from == StrpTime(l.loan_date) IN IF today > from THEN today - from ELSE 0

DaysOverdue(l) ==
    LET due == StrpTime(l.due_date) IN IF today > due THEN today - due ELSE 0

Fine(l) == DaysOverdue(l) * Get(settings, "fine_per_day", DefaultFinePerDay)

\* a renewal counted from today instead of from the due date
RenewedFromToday(l, days) ==
    Update(l, [due_date |-> StrfTime(today + days),
               renewed |-> TRUE,
               loan_period |-> Get(l, "loan_period", 0) + days])

\* renew_loan, the loan after the renewal by `days`
RenewedLoan(l, days) ==
    LET due == StrpTime(l.due_date) IN
    Update(l, [due_date |-> StrfTime(due + days),
               renewed |-> TRUE,
               loan_period |-> Get(l, "loan_period", 0) + days])

RenewLoan(row, accepted, days) ==
    LET loan_id == active_loans_table[row]
        i == FirstIndex(loans, LAMBDA l : HasLoanId(l, loan_id))
    IN  IF i = 0
        THEN /\ last' = Outcome("renew_loan", "not_found", <<>>, loan_id, 0, FALSE)
             /\ UNCHANGED <<store, data_file, today, widgets>>
        ELSE IF ~accepted
        THEN UNCHANGED vars
        ELSE /\ StrpTime(loans[i].due_date) + days <= Day0 + MaxDay
             /\ loans' = [loans EXCEPT ![i] = RenewedLoan(@, days)]
             /\ data_file' = SaveData(members, books, loans', settings)
             /\ active_loans_table' = LoadActiveLoans(loans')
             /\ last' = Outcome("renew_loan", "ok", <<>>, loan_id,
                                DaysOverdue(loans[i]), TRUE)
             /\ UNCHANGED <<members, books, settings, today, members_table,
                            books_table, loan_member_combo, loan_book_combo,
                            member_detail_search, selected_member_id>>

\* return_book, the loan after its return; pay_now is the button pressed in
\* the fine dialog, which is shown only for a fine above 0
ReturnedLoan(l, pay_now) ==
    LET fine == Fine(l)
        l1 == Update(l, [return_date |-> StrfTime(today)])
    IN  IF fine > 0
        THEN IF pay_now
             THEN Update(l1, [fine_paid |-> TRUE, unpaid_fine |-> 0])
             ELSE Update(l1, [fine_paid |-> FALSE, unpaid_fine |-> fine])
        ELSE Update(l1, [fine_paid |-> TRUE, unpaid_fine |-> 0])

\* return_book, the book after one copy has come back
\* a return that clears is_borrowed without giving the copy back
ReturnedFlagOnly(b) == Update(b, [is_borrowed |-> FALSE])

ReturnedCopy(b) ==
    LET avail == Get(b, "available_copies", 0) + 1
        b1 == Update(b, [available_copies |-> avail])
    IN  IF avail > 0 THEN Update(b1, [is_borrowed |-> FALSE]) ELSE b1

ReturnBook(row, pay_now) ==
    LET loan_id == active_loans_table[row]
        i == FirstIndex(loans, LAMBDA l : HasLoanId(l, loan_id))
        book_id == Get(loans[i], "book_id", None)
        k == FirstIndex(books, LAMBDA b : HasBookId(b, book_id))
    IN  IF i = 0
        THEN /\ last' = Outcome("return_book", "not_found", <<>>, loan_id, 0, FALSE)
             /\ UNCHANGED <<store, data_file, today, widgets>>
        ELSE /\ (Fine(loans[i]) = 0 => ~pay_now)
             /\ loans' = [loans EXCEPT ![i] = ReturnedLoan(@, pay_now)]
             /\ books' = IF k # 0 THEN [books EXCEPT ![k] = ReturnedCopy(@)] ELSE books
             /\ data_file' = SaveData(members, books', loans', settings)
             /\ loan_member_combo' = MemberComboItems(members)
             /\ loan_book_combo' = BookComboItems(books')
             /\ books_table' = LoadBooksTable(books')
             /\ active_loans_table' = LoadActiveLoans(loans')
             /\ last' = Outcome("return_book", "ok", book_id, loan_id,
                                Fine(loans[i]), pay_now)
             /\ UNCHANGED <<members, settings, today, members_table,
                            member_detail_search, selected_member_id>>

(* ------------------------ member details page -------------------------- *)
\* search_member_details, the test of one member against the search text
MatchesMember(m, q) ==
    \/ Contains(q, Get(m, "student_id", <<>>))
    \/ Contains(q, Get(m, "first_name", <<>>))
    \/ Contains(q, Get(m, "phone", <<>>))
    \/ Contains(q, Get(m, "national_id", <<>>))
    \/ Contains(q, Get(m, "last_name", <<>>))

\* search_member_details: selected_member_id after a search for `text`
SearchMemberDetails(text, current) ==
    LET q == Strip(text)
        i == FirstIndex(members, LAMBDA m : MatchesMember(m, q))
    IN  IF q = <<>> \/ i = 0 THEN current ELSE Get(members[i], "student_id", None)

\* on_member_double_click: the row's student id becomes the search text
OnMemberDoubleClick(row) ==
    /\ member_detail_search' = members_table[row]
    /\ selected_member_id' = SearchMemberDetails(member_detail_search', selected_member_id)
    /\ UNCHANGED <<store, data_file, today, members_table, books_table,
                   active_loans_table, loan_member_combo, loan_book_combo, last>>

\* pay_member_fines, the loans it settles
\* a returned loan with an unpaid fine, of whichever member
IsUnpaidLoan(l, member_id) ==
    /\ Get(l, "return_date", None) # None
    /\ Get(l, "unpaid_fine", 0) > 0

IsUnpaidLoanOf(l, member_id) ==
    /\ Get(l, "member_id", None) = member_id
    /\ Get(l, "return_date", None) # None
    /\ Get(l, "unpaid_fine", 0) > 0

SettledLoan(l) == Update(l, [unpaid_fine |-> 0, fine_paid |-> TRUE])

PayMemberFines(yes) ==
    LET member_id == selected_member_id IN
    IF member_id = None
    THEN /\ last' = Outcome("pay_member_fines", "no_member", member_id, 0, 0, FALSE)
         /\ UNCHANGED <<store, data_file, today, widgets>>
    ELSE IF ~\E i \in 1..Len(loans) : IsUnpaidLoanOf(loans[i], member_id)
    THEN /\ last' = Outcome("pay_member_fines", "nothing", member_id, 0, 0, FALSE)
         /\ UNCHANGED <<store, data_file, today, widgets>>
    ELSE IF ~yes
    THEN UNCHANGED vars
    ELSE /\ loans' = [i \in 1..Len(loans) |->
                         IF IsUnpaidLoanOf(loans[i], member_id)
                         THEN SettledLoan(loans[i]) ELSE loans[i]]
         /\ data_file' = SaveData(members, books, loans', settings)
         /\ selected_member_id' = SearchMemberDetails(member_detail_search, selected_member_id)
         /\ last' = Outcome("pay_member_fines", "ok", member_id, 0, 0, TRUE)
         /\ UNCHANGED <<members, books, settings, today, members_table, books_table,
                        active_loans_table, loan_member_combo, loan_book_combo,
                        member_detail_search>>

(* ----------------------------- settings -------------------------------- *)
SaveSettings(period, fine) ==
    /\ settings' = Update(settings, [default_loan_period |-> period,
                                     fine_per_day |-> fine])
    /\ data_file' = SaveData(members, books, loans, settings')
    /\ last' = Outcome("save_settings", "ok", <<>>, 0, 0, FALSE)
    /\ UNCHANGED <<members, books, loans, today, widgets>>

(* ---------------------------- overdue page ----------------------------- *)
\* update_overdue_table lists a loan that has no return date and was due
\* today or earlier
IsDueOrOverdue(l) ==
    /\ Get(l, "return_date", None) = None
    /\ StrpTime(Get(l, "due_date", <<>>)) <= today

\* update_overdue_table lists a loan that has no return date and was due
\* before today
IsOverdue(l) ==
    /\ Get(l, "return_date", None) = None
    /\ StrpTime(Get(l, "due_date", <<>>)) < today

\* the first and last name of the loan's member, or the loan's member_id when
\* no member carries it
OverdueMemberName(l) ==
    LET i == FirstIndex(members,
                 LAMBDA m : HasStudentId(m, Get(l, "member_id", None)))
    IN  IF i # 0
        THEN Get(members[i], "first_name", <<>>) \o <<" ">>
                 \o Get(members[i], "last_name", <<>>)
        ELSE Get(l, "member_id", None)

\* one row of the overdue table: member, book, days late and fine (the due
\* date, shown in the Jalali calendar, is left out of the row)
OverdueRow(l) ==
    LET days == today - StrpTime(Get(l, "due_date", <<>>))
    IN  [member |-> OverdueMemberName(l),
         book_title |-> Get(l, "book_title", <<>>),
         days |-> days,
         fine |-> days * Get(settings, "fine_per_day", DefaultFinePerDay)]

\* the rows update_overdue_table fills the table with, in the order of loans
OverdueRows ==
    LET listed == Filter(loans, LAMBDA l : IsOverdue(l))
    IN  [k \in 1..Len(listed) |-> OverdueRow(listed[k])]

\* update_overdue_table(): the table is rebuilt, the store is only read
UpdateOverdueTable ==
    /\ last' = Outcome("update_overdue_table", "ok", <<>>, 0, Len(OverdueRows), FALSE)
    /\ UNCHANGED <<store, data_file, today, widgets>>

(* ------------------------------ restore -------------------------------- *)
\* refresh_ui(): every table and both combo boxes are rebuilt
RefreshUi ==
    /\ members_table' = LoadMembersTable(members')
    /\ books_table' = LoadBooksTable(books')
    /\ loan_member_combo' = MemberComboItems(members')
    /\ loan_book_combo' = BookComboItems(books')
    /\ active_loans_table' = LoadActiveLoans(loans')

\* restore_backup: open() and json.load() raise for a missing or invalid file
\* and d.get raises for a top level that is no mapping, all before the first
\* assignment; settings.update raises for settings that are no mapping, after
\* members, books and loans have been assigned.  The except clause reports
\* the error and the handler ends.
RestoreBackup(d) ==
    IF d.type # "object"
    THEN /\ last' = Outcome("restore_backup", "error", <<>>, 0, 0, FALSE)
         /\ UNCHANGED <<store, data_file, today, widgets>>
    ELSE /\ members' = Get(d.value, "members", <<>>)
         /\ books' = Get(d.value, "books", <<>>)
         /\ loans' = Get(d.value, "loans", <<>>)
         /\ LET s == Get(d.value, "settings", JsonObject(<<>>)) IN
            IF s.type = "object"
            THEN /\ settings' = Update(settings, s.value)
                 /\ data_file' = SaveData(members', books', loans', settings')
                 /\ RefreshUi
                 /\ last' = Outcome("restore_backup", "ok", <<>>, 0, 0, TRUE)
                 /\ UNCHANGED <<today, member_detail_search, selected_member_id>>
            ELSE /\ last' = Outcome("restore_backup", "error", <<>>, 0, 1, FALSE)
                 /\ UNCHANGED <<settings, data_file, today, widgets>>

\* a file that is missing, is no JSON, or is JSON of the wrong shape: its top
\* level is no mapping or its settings are no mapping
Malformed(d) ==
    \/ d.type # "object"
    \/ Get(d.value, "settings", JsonObject(<<>>)).type # "object"

\* the backup written by create_backup after member 1 borrowed the only copy
\* of the book, on the first day
BackupMember == [student_id |-> <<"1">>, national_id |-> <<"7">>, phone |-> <<"9">>,
                 first_name |-> <<"n">>, last_name |-> <<"f">>]
BackupBook == [id |-> <<"a", "_", "x", "_", "1">>, title |-> <<"a">>, author |-> <<"x">>,
               publish_date |-> <<"1">>, total_copies |-> 1, available_copies |-> 0,
               is_borrowed |-> TRUE]
BackupLoan == [id |-> 1, member_id |-> <<"1">>, book_id |-> <<"a", "_", "x", "_", "1">>,
               book_title |-> <<"a">>, loan_date |-> StrfTime(Day0),
               due_date |-> StrfTime(Day0 + 1), return_date |-> None, loan_period |-> 1]
BackupSettings == [default_loan_period |-> DefaultLoanPeriod,
                   fine_per_day |-> DefaultFinePerDay]

BackupDocument(s) ==
    JsonObject([members |-> <<BackupMember>>, books |-> <<BackupBook>>,
                loans |-> <<BackupLoan>>, settings |-> s])

\* the files restore_backup is run on: the backup, the backup with its
\* settings replaced by null, an empty object, and files that are no object
RestoreDocs ==
    { BackupDocument(JsonObject(BackupSettings)),
      BackupDocument(JsonNull),
      JsonObject(<<>>),
      [type |-> "array"], [type |-> "invalid"], [type |-> "missing"] }

\* A document as gen_data.py writes it, in small: its loans are numbered from
\* above 1 (there from 1001, for 1300 loans, so that the number of loans
\* reaches into the ids), its books are keyed by title and author only and
\* carry copies_details
GenBook == [id |-> <<"a", "_", "x">>, title |-> <<"a">>, author |-> <<"x">>,
            publish_date |-> <<"1">>, total_copies |-> MaxCopies,
            available_copies |-> MaxCopies - 1, is_borrowed |-> TRUE,
            copies_details |-> <<>>]
GenLoan == [id |-> 2, member_id |-> <<"1">>, book_id |-> <<"a", "_", "x">>,
            book_title |-> <<"a">>, loan_date |-> StrfTime(Day0),
            due_date |-> StrfTime(Day0 + 1), return_date |-> None, loan_period |-> 1]
GenDocument ==
    JsonObject([members |-> <<BackupMember>>, books |-> <<GenBook>>,
                loans |-> <<GenLoan>>, settings |-> JsonObject(BackupSettings)])

(* ------------------------------ start-up ------------------------------- *)
\* __init__: a new process starts with empty collections and the initial
\* settings, load_data() reads DATA_FILE and refresh_ui() fills the widgets
Startup ==
    LET r == LoadData(FileContent, <<>>, <<>>, <<>>, InitialSettings) IN
    /\ members' = r.members
    /\ books' = r.books
    /\ loans' = r.loans
    /\ settings' = r.settings
    /\ RefreshUi
    /\ member_detail_search' = <<>>
    /\ selected_member_id' = None
    /\ last' = Outcome("load_data", r.out, <<>>, 0, 0, FALSE)
    /\ UNCHANGED <<data_file, today>>

\* DATA_FILE is overwritten from outside the program
FileReplaced(d) ==
    /\ data_file' = <<d>>
    /\ last' = Outcome("file_replaced", "external", <<>>, 0, 0, FALSE)
    /\ UNCHANGED <<store, today, widgets>>

\* what the file is overwritten with: a document whose settings are null, a
\* JSON array, and text that is no JSON
ExternalFiles == {BackupDocument(JsonNull), [type |-> "array"], [type |-> "invalid"]}

\* a backup whose settings hold the loan period only
OldSettings == [default_loan_period |-> DefaultLoanPeriod]

\* the well-formed documents restore_backup is run on
StoreDocs == {BackupDocument(JsonObject(BackupSettings)),
              BackupDocument(JsonObject(OldSettings))}

(* --------------------------- failing writes ---------------------------- *)
\* save_data() raising OSError: open() fails and DATA_FILE is as it was, or
\* the write fails after open() has truncated the file (`part`)
FailedSave(part) == IF part THEN <<[type |-> "invalid"]>> ELSE data_file

\* What follows the exception that leaves a handler: PyQt5 from 5.5 on ends
\* the process (`fatal`), older versions print the traceback and go on
Unhandled(fatal) == IF fatal THEN "crashed" ELSE "save_failed"

\* add_member with save_data() raising: the member has been appended, the
\* exception leaves the handler before the table and the combos are rebuilt
AddMemberSaveFails(sid_text, nid, phone, fn, ln, part, fatal) ==
    LET sid == Strip(sid_text)
        member == [student_id |-> sid, national_id |-> Strip(nid),
                   phone |-> Strip(phone), first_name |-> Strip(fn),
                   last_name |-> Strip(ln)]
    IN  /\ sid # <<>>
        /\ ~\E i \in 1..Len(members) : HasStudentId(members[i], sid)
        /\ Len(members) < MaxMembers
        /\ members' = Append(members, member)
        /\ data_file' = FailedSave(part)
        /\ last' = Outcome("add_member", Unhandled(fatal), sid, 0, 0, part)
        /\ UNCHANGED <<books, loans, settings, today, widgets>>

\* loan_book with save_data() raising: the copy has been taken and the loan
\* appended, the exception leaves the handler before any widget is rebuilt
LoanBookSaveFails(member_id, book_id, period, part, fatal) ==
    LET i == FirstIndex(books, LAMBDA b : HasBookId(b, book_id)) IN
    /\ member_id # <<>> /\ book_id # <<>>
    /\ Len(loans) < MaxLoans
    /\ today + period <= Day0 + MaxDay
    /\ books' = IF i # 0 THEN [books EXCEPT ![i] = LoanedBook(@)] ELSE books
    /\ loans' = Append(loans, NewLoan(member_id, book_id, i, period))
    /\ data_file' = FailedSave(part)
    /\ last' = Outcome("loan_book", Unhandled(fatal), book_id, Len(loans) + 1, 0, part)
    /\ UNCHANGED <<members, settings, today, widgets>>

\* the process has not been ended by an unhandled exception
Running == last.out # "crashed"

(* ------------------------------- Next ---------------------------------- *)
ComboChoices(items) == Range(items) \cup {<<>>}

\* the handlers, with the texts and numbers the user enters drawn from the
\* given sets
AddMemberStep(Sids) ==
    \E sid \in Sids, nid \in NationalIdInputs, ph \in PhoneInputs,
       fn \in FirstNameInputs, ln \in LastNameInputs :
       AddMember(sid, nid, ph, fn, ln)

EditMemberStep(Sids) ==
    \E row \in 1..Len(members_table), save \in BOOLEAN, sid \in Sids,
       nid \in NationalIdInputs, ph \in PhoneInputs, fn \in FirstNameInputs,
       ln \in LastNameInputs :
       EditMember(row, save, sid, nid, ph, fn, ln)

DeleteMemberStep ==
    \E row \in 1..Len(members_table), yes \in BOOLEAN : DeleteMember(row, yes)

AddBookStep(Titles, Publishes, Copies) ==
    \E t \in Titles, a \in AuthorInputs, p \in Publishes, c \in Copies :
       AddBook(t, a, p, c)

\* add_book with the author field left empty
AddBookNoAuthorStep ==
    \E t \in TitleInputs, p \in OnePublish : AddBook(t, <<>>, p, 1)

EditBookStep(Titles, Publishes, Copies) ==
    \E row \in 1..Len(books_table), save \in BOOLEAN, t \in Titles,
       a \in AuthorInputs, p \in Publishes, c \in Copies :
       EditBook(row, save, t, a, p, c)

DeleteBookStep ==
    \E row \in 1..Len(books_table), yes \in BOOLEAN : DeleteBook(row, yes)

LoanBookStep(Periods) ==
    \E m \in ComboChoices(loan_member_combo), b \in ComboChoices(loan_book_combo),
       ok \in BOOLEAN, period \in Periods : LoanBook(m, b, ok, period)

RenewLoanStep ==
    \E row \in 1..Len(active_loans_table), ok \in BOOLEAN, days \in RenewInputs :
       RenewLoan(row, ok, days)

ReturnBookStep ==
    \E row \in 1..Len(active_loans_table), pay_now \in BOOLEAN :
       ReturnBook(row, pay_now)

OnMemberDoubleClickStep ==
    \E row \in 1..Len(members_table) : OnMemberDoubleClick(row)

PayMemberFinesStep == \E yes \in BOOLEAN : PayMemberFines(yes)

SaveSettingsStep ==
    \E period \in SettingsPeriodInputs, fine \in FinePerDayInputs :
        SaveSettings(period, fine)

AddMemberSaveFailsStep(Sids) ==
    \E sid \in Sids, nid \in NationalIdInputs, ph \in PhoneInputs,
       fn \in FirstNameInputs, ln \in LastNameInputs, part \in BOOLEAN,
       fatal \in BOOLEAN :
       AddMemberSaveFails(sid, nid, ph, fn, ln, part, fatal)

LoanBookSaveFailsStep(Periods) ==
    \E m \in ComboChoices(loan_member_combo), b \in ComboChoices(loan_book_combo),
       period \in Periods, part \in BOOLEAN, fatal \in BOOLEAN :
       LoanBookSaveFails(m, b, period, part, fatal)

(* The loan ledger of one member and one title: issue, renew, return, fines, *)
(* together with the catalog operations on that title.                       *)
Next ==
    \/ Tick
    \/ AddMemberStep(OneStudentId)
    \/ AddBookStep(OneTitle, OnePublish, CopiesInputs)
    \/ EditBookStep(OneTitle, OnePublish, CopiesInputs)
    \/ DeleteBookStep
    \/ LoanBookStep(PeriodInputs)
    \/ RenewLoanStep
    \/ ReturnBookStep
    \/ OnMemberDoubleClickStep
    \/ PayMemberFinesStep
    \/ SaveSettingsStep

Spec == Init /\ [][Next]_vars

(* The ledger of one member and one single-copy title, with restore.        *)
NextRestore ==
    \/ AddMemberStep(OneStudentId)
    \/ AddBookStep(OneTitle, OnePublish, {1})
    \/ LoanBookStep(PeriodInputs)
    \/ ReturnBookStep
    \/ \E d \in RestoreDocs : RestoreBackup(d)

SpecRestore == Init /\ [][NextRestore]_vars

(* Two members borrowing the copies of one title: late returns, deferred    *)
(* fines and their settlement.                                               *)
NextFines ==
    \/ Tick
    \/ AddMemberStep(TwoStudentIds)
    \/ AddBookStep(OneTitle, OnePublish, {MaxCopies})
    \/ LoanBookStep(PeriodInputs)
    \/ ReturnBookStep
    \/ OnMemberDoubleClickStep
    \/ PayMemberFinesStep

SpecFines == Init /\ [][NextFines]_vars

(* The member registry, with one single-copy title to lend.                  *)
NextMembers ==
    \/ AddMemberStep(StudentIdInputs)
    \/ EditMemberStep(StudentIdInputs)
    \/ DeleteMemberStep
    \/ AddBookStep(OneTitle, OnePublish, {1})
    \/ LoanBookStep(PeriodInputs)
    \/ ReturnBookStep

SpecMembers == Init /\ [][NextMembers]_vars

(* The catalog: several titles and editions, lent to one member.             *)
NextCatalog ==
    \/ AddMemberStep(OneStudentId)
    \/ AddBookStep(TitleInputs, PublishInputs, {1})
    \/ DeleteBookStep
    \/ LoanBookStep(PeriodInputs)
    \/ ReturnBookStep

SpecCatalog == Init /\ [][NextCatalog]_vars

(* The ledger after a generated document has been restored.                *)
\* the copies counted as available stay within the modelled range
CopiesWithinRange ==
    \A k \in 1..Len(books') : Get(books'[k], "available_copies", 0) <= MaxCopies

NextLoanIds ==
    \/ AddMemberStep(OneStudentId)
    \/ AddBookStep(OneTitle, OnePublish, {1})
    \/ LoanBookStep(PeriodInputs)
    \/ RenewLoanStep
    \/ ReturnBookStep /\ CopiesWithinRange
    \/ RestoreBackup(GenDocument)

SpecLoanIds == Init /\ [][NextLoanIds]_vars

(* Saving, restoring and loading: one member, one single-copy title, the  *)
(* settings, and the primary file overwritten from outside.                 *)
NextLoad ==
    \/ AddMemberStep(OneStudentId)
    \/ AddBookStep(OneTitle, OnePublish, {1})
    \/ LoanBookStep(PeriodInputs)
    \/ ReturnBookStep
    \/ SaveSettingsStep
    \/ \E d \in StoreDocs : RestoreBackup(d)
    \/ \E d \in ExternalFiles : FileReplaced(d)
    \/ Startup

SpecLoad == Init /\ [][NextLoad]_vars

(* Every handler that changes the store, on one member and one single-copy *)
(* title.                                                                   *)
NextStore ==
    \/ Tick
    \/ AddMemberStep(OneStudentId)
    \/ EditMemberStep(OneStudentId)
    \/ DeleteMemberStep
    \/ AddBookStep(OneTitle, OnePublish, {1})
    \/ EditBookStep(OneTitle, OnePublish, {1})
    \/ DeleteBookStep
    \/ LoanBookStep(PeriodInputs)
    \/ RenewLoanStep
    \/ ReturnBookStep
    \/ OnMemberDoubleClickStep
    \/ PayMemberFinesStep
    \/ SaveSettingsStep
    \/ RestoreBackup(BackupDocument(JsonObject(BackupSettings)))

SpecStore == Init /\ [][NextStore]_vars

(* The ledger of one member and one title when writing the primary file   *)
(* can fail; a process that was ended can only be started again.            *)
NextSaveFails ==
    \/ Running /\ AddMemberStep(OneStudentId)
    \/ Running /\ AddBookStep(OneTitle, OnePublish, {MaxCopies})
    \/ Running /\ LoanBookStep(PeriodInputs)
    \/ Running /\ ReturnBookStep
    \/ Running /\ AddMemberSaveFailsStep(OneStudentId)
    \/ Running /\ LoanBookSaveFailsStep(PeriodInputs)
    \/ Startup

SpecSaveFails == Init /\ [][NextSaveFails]_vars

(* Editions on the shelf: two titles in two editions each, added, edited   *)
(* and deleted.                                                             *)
NextEditions ==
    \/ AddBookStep(TitleInputs, PublishInputs, {1})
    \/ AddBookNoAuthorStep
    \/ EditBookStep(EditionTitles, OnePublish, {1})
    \/ DeleteBookStep

SpecEditions == Init /\ [][NextEditions]_vars

(* Two single-copy titles, one of which can be renamed to the other, edited *)
(* and deleted while lent to one member.                                    *)
NextLentTitles ==
    \/ AddMemberStep(OneStudentId)
    \/ AddBookStep(EditionTitles, OnePublish, {1})
    \/ EditBookStep(OneTitle, OnePublish, {1})
    \/ DeleteBookStep
    \/ LoanBookStep(PeriodInputs)
    \/ ReturnBookStep

SpecLentTitles == Init /\ [][NextLentTitles]_vars

(* The overdue page: the copies of one title lent to one member, renewed,  *)
(* returned late or in time, under a changing fine per day.                 *)
NextOverdue ==
    \/ Tick
    \/ AddMemberStep(OneStudentId)
    \/ AddBookStep(OneTitle, OnePublish, {MaxCopies})
    \/ LoanBookStep(PeriodInputs)
    \/ RenewLoanStep
    \/ ReturnBookStep
    \/ OnMemberDoubleClickStep
    \/ PayMemberFinesStep
    \/ SaveSettingsStep
    \/ UpdateOverdueTable

SpecOverdue == Init /\ [][NextOverdue]_vars

(* ======================= properties of the ledger ====================== *)
AvailableCopies(b) == Get(b, "available_copies", 0)
TotalCopies(b) == Get(b, "total_copies", 0)

ActiveLoansOf(book_id) ==
    Cardinality({i \in 1..Len(loans) :
        IsActive(loans[i]) /\ Get(loans[i], "book_id", None) = book_id})

\* C1: in every state every book has 0 <= available_copies <= total_copies
C1_AvailableWithinTotal ==
    \A i \in 1..Len(books) :
        /\ 0 <= AvailableCopies(books[i])
        /\ AvailableCopies(books[i]) <= TotalCopies(books[i])

\* C2: in every state every book's available_copies is its total_copies minus
\* the number of loans without return date that carry the book's id
C2_AvailabilityMatchesLedger ==
    \A i \in 1..Len(books) :
        AvailableCopies(books[i]) =
            TotalCopies(books[i]) - ActiveLoansOf(Get(books[i], "id", None))

C5_ReturnRecordsFine ==
    [][\A row \in 1..Len(active_loans_table), pay_now \in BOOLEAN :
        LET i == FirstIndex(loans, LAMBDA l : HasLoanId(l, active_loans_table[row]))
        IN  (i # 0 /\ IsActive(loans[i]) /\ ReturnBook(row, pay_now)) =>
            LET late == today - StrpTime(loans[i].due_date)
                fine == (IF late > 0 THEN late ELSE 0) * settings.fine_per_day
                after == loans'[i]
            IN  /\ StrpTime(after.return_date) = today
                /\ fine = 0 => (after.fine_paid = TRUE /\ after.unpaid_fine = 0)
                /\ (fine > 0 /\ pay_now) => (after.fine_paid = TRUE /\ after.unpaid_fine = 0)
                /\ (fine > 0 /\ ~pay_now) =>
                       (after.fine_paid = FALSE /\ after.unpaid_fine = fine)]_vars

\* a loan was returned late and its fine deferred
C5_Witness ==
    /\ last.op = "return_book" /\ last.out = "ok" /\ ~last.yes /\ last.val > 0
    /\ \E i \in 1..Len(loans) :
           /\ HasLoanId(loans[i], last.id)
           /\ ~IsActive(loans[i])
           /\ loans[i].unpaid_fine = last.val
           /\ loans[i].fine_paid = FALSE

\* C6: renewing an active loan by d days moves due_date to exactly its prior
\* due_date plus d, whatever today is, sets renewed, adds d to loan_period and
\* leaves return_date null
C6_RenewExtendsFromDueDate ==
    [][\A row \in 1..Len(active_loans_table), days \in RenewInputs :
        LET i == FirstIndex(loans, LAMBDA l : HasLoanId(l, active_loans_table[row]))
        IN  (i # 0 /\ IsActive(loans[i]) /\ RenewLoan(row, TRUE, days)) =>
            /\ StrpTime(loans'[i].due_date) = StrpTime(loans[i].due_date) + days
            /\ loans'[i].renewed = TRUE
            /\ loans'[i].loan_period = loans[i].loan_period + days
            /\ loans'[i].return_date = None
            /\ IsActive(loans'[i])]_vars

\* a loan that was already overdue has been renewed
C6_Witness ==
    /\ last.op = "renew_loan" /\ last.out = "ok" /\ last.val > 0
    /\ \E i \in 1..Len(loans) :
           /\ HasLoanId(loans[i], last.id)
           /\ IsActive(loans[i])
           /\ Get(loans[i], "renewed", FALSE)

\* C3: no handler appends a loan on a book whose available_copies is 0: a
\* step that finds the chosen book without a copy changes neither members,
\* books, loans nor settings
C3_NoLoanWithoutCopy ==
    [][\A k \in 1..Len(books) :
        ( /\ AvailableCopies(books[k]) = 0
          /\ \A j \in 1..(k - 1) : Get(books[j], "id", None) # Get(books[k], "id", None)
          /\ \E m \in ComboChoices(loan_member_combo), p \in PeriodInputs :
                 LoanBook(m, Get(books[k], "id", None), TRUE, p) )
        => UNCHANGED store]_vars

\* C7: a confirmed pay_member_fines zeroes unpaid_fine and sets fine_paid on
\* exactly the returned loans of the selected member that carry an unpaid
\* fine; every other loan, the members, the books and the settings stay as
\* they are, so nothing changes when no such loan exists
C7_PayFinesSettlesOnlyThatMember ==
    [][PayMemberFines(TRUE) =>
        /\ Len(loans') = Len(loans)
        /\ \A i \in 1..Len(loans) :
               IF /\ loans[i].member_id = selected_member_id
                  /\ ~IsActive(loans[i])
                  /\ loans[i].unpaid_fine > 0
               THEN /\ loans'[i].unpaid_fine = 0
                    /\ loans'[i].fine_paid = TRUE
                    /\ \A f \in DOMAIN loans[i] \ {"unpaid_fine", "fine_paid"} :
                           loans'[i][f] = loans[i][f]
               ELSE loans'[i] = loans[i]
        /\ UNCHANGED <<members, books, settings>>]_vars

\* the fines of one member were settled while another member still owes one
C7_Witness ==
    /\ last.op = "pay_member_fines" /\ last.out = "ok"
    /\ \E i, j \in 1..Len(loans) :
           /\ loans[i].member_id = last.key
           /\ ~IsActive(loans[i]) /\ loans[i].unpaid_fine = 0 /\ loans[i].fine_paid
           /\ loans[j].member_id # last.key
           /\ ~IsActive(loans[j]) /\ loans[j].unpaid_fine > 0 /\ ~loans[j].fine_paid

\* C8: delete_member on the row of a student id changes neither members,
\* books nor loans while a loan of that student id has no return date;
\* otherwise, once confirmed, it removes the member of that student id and
\* keeps the others
C8_DeleteMemberBlockedByActiveLoan ==
    [][\A row \in 1..Len(members_table), yes \in BOOLEAN :
        DeleteMember(row, yes) =>
            LET sid == members_table[row] IN
            IF \E i \in 1..Len(loans) :
                   loans[i].member_id = sid /\ loans[i].return_date = None
            THEN UNCHANGED <<members, books, loans>>
            ELSE /\ yes =>
                     /\ \A i \in 1..Len(members') : members'[i].student_id # sid
                     /\ \A i \in 1..Len(members) :
                            members[i].student_id # sid =>
                                \E j \in 1..Len(members') : members'[j] = members[i]
                 /\ UNCHANGED <<books, loans>>]_vars

\* the deletion of a member who holds a book was refused
C8_Witness ==
    /\ last.op = "delete_member" /\ last.out = "has_loan"
    /\ \E i \in 1..Len(members) : members[i].student_id = last.key
    /\ \E i \in 1..Len(loans) : loans[i].member_id = last.key /\ IsActive(loans[i])

\* C9: delete_book removes no book that has a copy out on loan: every book
\* record that a delete_book step takes out of the catalog has
\* available_copies = total_copies
C9_DeleteBookOnlyWhenAllCopiesIn ==
    [][\A row \in 1..Len(books_table), yes \in BOOLEAN :
        DeleteBook(row, yes) =>
            \A i \in 1..Len(books) :
                (\A j \in 1..Len(books') : books'[j] # books[i]) =>
                    AvailableCopies(books[i]) = TotalCopies(books[i])]_vars

\* C10: add_member with an empty student id, or with the student id of a
\* member already registered, leaves the member collection as it is
C10_AddMemberRejectsDuplicate ==
    [][\A sid \in StudentIdInputs, nid \in NationalIdInputs, ph \in PhoneInputs,
          fn \in FirstNameInputs, ln \in LastNameInputs :
        ( /\ AddMember(sid, nid, ph, fn, ln)
          /\ \/ sid = <<>>
             \/ \E i \in 1..Len(members) : members[i].student_id = sid )
        => members' = members]_vars

\* an add_member with the student id of a registered member was refused
C10_Witness ==
    /\ last.op = "add_member" /\ last.out = "duplicate"
    /\ Cardinality({i \in 1..Len(members) : members[i].student_id = last.key}) = 1

\* C11: student_id is a unique key: no two member records of the registry
\* carry the same student_id
C11_StudentIdUnique ==
    \A i, j \in 1..Len(members) :
        members[i].student_id = members[j].student_id => i = j

\* C12: every successful loan_book gives the new loan an id strictly greater
\* than the id of every loan already in the ledger (so that ids stay unique),
\* also after the restore of a document whose loan ids are distinct
C12_LoanIdAboveAllOthers ==
    [][\A m \in ComboChoices(loan_member_combo), b \in ComboChoices(loan_book_combo),
          period \in PeriodInputs :
        (LoanBook(m, b, TRUE, period) /\ Len(loans') = Len(loans) + 1)
        => \A i \in 1..Len(loans) : loans'[Len(loans')].id > loans[i].id]_vars

\* C13: a loan whose return_date is set keeps its loan_date, due_date,
\* return_date, loan_period, member_id and book_id through every loan_book,
\* renew_loan, return_book, pay_member_fines, edit_book and edit_member step
C13_ReturnedLoanFrozen ==
    [][( \/ LoanBookStep(PeriodInputs)
         \/ RenewLoanStep
         \/ ReturnBookStep
         \/ PayMemberFinesStep
         \/ EditBookStep(OneTitle, OnePublish, CopiesInputs)
         \/ EditMemberStep(StudentIdInputs) )
       => \A i \in 1..Len(loans) :
              ~IsActive(loans[i]) =>
                  /\ i <= Len(loans')
                  /\ \A f \in {"loan_date", "due_date", "return_date", "loan_period",
                               "member_id", "book_id"} :
                         loans'[i][f] = loans[i][f]]_vars

\* C16: restore_backup on a missing or malformed document reports an error
\* and leaves members, books, loans, settings and the primary file unchanged
C16_FailedRestoreChangesNothing ==
    [][\A d \in RestoreDocs :
        (Malformed(d) /\ RestoreBackup(d))
        => /\ last'.out = "error"
           /\ UNCHANGED <<members, books, loans, settings, data_file>>]_vars

C15_SaveThenLoadRoundTrip ==
    [][( /\ data_file = <<JsonDump(Document(members, books, loans, settings))>>
         /\ Startup )
       => UNCHANGED <<members, books, loans, settings>>]_vars

\* a start-up has loaded a ledger with a loan and settings other than the
\* initial ones
C15_Witness ==
    /\ last.op = "load_data" /\ last.out = "ok"
    /\ loans # <<>> /\ members # <<>> /\ books # <<>>
    /\ settings.fine_per_day # DefaultFinePerDay

\* C17: load_data on a primary file that exists and is malformed reports an
\* error and leaves members, books, loans and settings as __init__ set them
C17_FailedLoadChangesNothing ==
    [][( /\ FileContent.type # "missing"
         /\ Malformed(FileContent)
         /\ Startup )
       => /\ last'.out = "error"
          /\ members' = <<>> /\ books' = <<>> /\ loans' = <<>>
          /\ settings' = InitialSettings]_vars

\* C18: a successful restore_backup leaves in memory exactly the members,
\* books, loans and settings of the document, and the document in the
\* primary file
C18_RestoreReplacesWholesale ==
    [][\A d \in StoreDocs :
        RestoreBackup(d)
        => /\ last'.out = "ok"
           /\ members' = d.value.members
           /\ books' = d.value.books
           /\ loans' = d.value.loans
           /\ settings' = d.value.settings.value
           /\ data_file' = <<d>>]_vars

\* C19: when the write of save_data fails inside add_member or loan_book,
\* members, books, loans and settings are what they were before the handler
C19_FailedSaveCommitsNothing ==
    [][( \/ AddMemberSaveFailsStep(OneStudentId)
         \/ LoanBookSaveFailsStep(PeriodInputs) )
       => UNCHANGED <<members, books, loans, settings>>]_vars

\* C20: an accepted loan_book of a chosen member and book appends exactly one
\* loan, with loan_date today, due_date = loan_date + period, no return date
\* and loan_period = period, takes exactly one available copy from that book
\* and leaves every other book and every loan already in the ledger as it was
C20_IssueAppendsOneLoan ==
    [][\A m \in ComboChoices(loan_member_combo), b \in ComboChoices(loan_book_combo),
          period \in PeriodInputs :
        (m # <<>> /\ b # <<>> /\ LoanBook(m, b, TRUE, period))
        => LET new == loans'[Len(loans')] IN
           /\ Len(loans') = Len(loans) + 1
           /\ \A i \in 1..Len(loans) : loans'[i] = loans[i]
           /\ new.member_id = m /\ new.book_id = b
           /\ StrpTime(new.loan_date) = today
           /\ StrpTime(new.due_date) = StrpTime(new.loan_date) + period
           /\ new.return_date = None
           /\ new.loan_period = period
           /\ Len(books') = Len(books)
           /\ \E k \in 1..Len(books) :
                  /\ HasBookId(books[k], b)
                  /\ AvailableCopies(books'[k]) = AvailableCopies(books[k]) - 1
                  /\ \A j \in 1..Len(books) : j # k => books'[j] = books[j]]_vars

\* C21: a saved edit of a book that sets total_copies to new_total leaves the
\* book with available_copies = max(0, its available_copies before + (new_total
\* - its total_copies before))
C21_EditBookAdjustsAvailable ==
    [][\A row \in 1..Len(books_table), t \in TitleInputs, a \in AuthorInputs,
          p \in PublishInputs, new_total \in CopiesInputs :
        LET i == EditBookLookup(row)
        IN  (i # 0 /\ EditBook(row, TRUE, t, a, p, new_total)) =>
            AvailableCopies(books'[i]) =
                Max(0, AvailableCopies(books[i])
                           + (new_total - TotalCopies(books[i])))]_vars

\* C22: a saved edit that changes the title or the author of a book leaves it
\* with the id derived from the new title and author; a saved edit that
\* changes neither leaves its id as it was
C22_EditBookRecomputesId ==
    [][\A row \in 1..Len(books_table), t \in TitleInputs, a \in AuthorInputs,
          p \in PublishInputs, new_total \in CopiesInputs :
        LET i == EditBookLookup(row)
            changed == \/ Strip(t) # Get(books[i], "title", None)
                       \/ Strip(a) # Get(books[i], "author", None)
        IN  (i # 0 /\ EditBook(row, TRUE, t, a, p, new_total)) =>
            Get(books'[i], "id", None) =
                IF changed THEN EditedBookId(Strip(t), Strip(a))
                           ELSE Get(books[i], "id", None)]_vars

\* C23: add_book with a title and an author: when a book carries the id
\* derived from title, author and publish date (spaces as underscores), that
\* book's total_copies and available_copies grow by copies and no record is
\* added; otherwise one book with available_copies = total_copies = copies is
\* appended; without a title or without an author nothing changes
C23_AddBookMergesOrInserts ==
    [][\A t \in TitleInputs, a \in AuthorInputs \cup {<<>>},
          p \in PublishInputs, copies \in CopiesInputs :
        AddBook(t, a, p, copies) =>
        LET title == Strip(t)
            author == Strip(a)
            derived == Replace(title \o <<"_">> \o author \o <<"_">> \o Strip(p),
                               " ", "_")
            same == {k \in 1..Len(books) : Get(books[k], "id", None) = derived}
        IN  IF title = <<>> \/ author = <<>>
            THEN UNCHANGED <<members, books, loans, settings, data_file>>
            ELSE IF same # {}
            THEN /\ Len(books') = Len(books)
                 /\ \E k \in same :
                      /\ TotalCopies(books'[k]) = TotalCopies(books[k]) + copies
                      /\ AvailableCopies(books'[k]) =
                             AvailableCopies(books[k]) + copies
                      /\ \A j \in 1..Len(books) : j # k => books'[j] = books[j]
            ELSE /\ Len(books') = Len(books) + 1
                 /\ SubSeq(books', 1, Len(books)) = books
                 /\ Get(books'[Len(books')], "id", None) = derived
                 /\ Get(books'[Len(books')], "title", None) = title
                 /\ Get(books'[Len(books')], "author", None) = author
                 /\ TotalCopies(books'[Len(books')]) = copies
                 /\ AvailableCopies(books'[Len(books')]) = copies]_vars

\* a second copy of an edition was added to its record while another edition
\* of the same title is in the catalog
C23_Witness ==
    /\ last.op = "add_book" /\ last.out = "merged"
    /\ Len(books) = 2
    /\ \E k \in 1..Len(books) :
           /\ HasBookId(books[k], last.key)
           /\ TotalCopies(books[k]) = 2 /\ AvailableCopies(books[k]) = 2
    /\ \E j \in 1..Len(books) :
           /\ ~HasBookId(books[j], last.key)
           /\ Get(books[j], "title", None) = <<"a">>
           /\ Get(books[j], "id", None) = <<"a", "_", "x", "_", "1">>
           /\ last.key = <<"a", "_", "x", "_", "2">>

\* C25: the overdue list has one row for each loan without return date whose
\* due_date is before today, in the order of the loans, and no other row; each
\* row shows days = today - due_date and fine = days * fine_per_day; computing
\* the list leaves members, books, loans, settings and the file as they were
C25_OverdueListIsLateActiveLoans ==
    [][UpdateOverdueTable =>
        LET late == {i \in 1..Len(loans) :
                        /\ loans[i].return_date = None
                        /\ StrpTime(loans[i].due_date) < today}
            rows == OverdueRows
        IN  /\ Len(rows) = Cardinality(late)
            /\ last'.val = Cardinality(late)
            /\ \E f \in [1..Len(rows) -> late] :
                  /\ \A j, k \in 1..Len(rows) : j < k => f[j] < f[k]
                  /\ \A k \in 1..Len(rows) :
                        /\ rows[k].book_title = loans[f[k]].book_title
                        /\ rows[k].days = today - StrpTime(loans[f[k]].due_date)
                        /\ rows[k].days > 0
                        /\ rows[k].fine = rows[k].days * settings.fine_per_day
            /\ UNCHANGED <<members, books, loans, settings, data_file>>]_vars

\* the overdue list was computed with one loan returned and one loan late
C25_Witness ==
    /\ last.op = "update_overdue_table" /\ last.val = 1
    /\ Len(loans) = 2
    /\ \E i, j \in 1..Len(loans) :
           /\ ~IsActive(loans[i])
           /\ IsActive(loans[j]) /\ StrpTime(loans[j].due_date) < today
    /\ settings.fine_per_day = DefaultFinePerDay

\* C24: no loan without return date carries an unpaid_fine or a fine_paid
\* field; saving the settings with a fine per day makes the fine shown for
\* every late loan without return date its days late times that fine per day,
\* and leaves the unpaid_fine of every returned loan as it was
C24_ActiveFinesAreLive ==
    [][/\ \A i \in 1..Len(loans') :
             loans'[i].return_date = None =>
                 /\ "unpaid_fine" \notin DOMAIN loans'[i]
                 /\ "fine_paid" \notin DOMAIN loans'[i]
       /\ \A period \in SettingsPeriodInputs, fine \in FinePerDayInputs :
             SaveSettings(period, fine) =>
                 /\ Len(OverdueRows') = Len(OverdueRows)
                 /\ \A k \in 1..Len(OverdueRows') :
                        OverdueRows'[k].fine = OverdueRows'[k].days * fine
                 /\ Len(loans') = Len(loans)
                 /\ \A i \in 1..Len(loans) :
                        loans[i].return_date # None =>
                            /\ loans'[i].return_date # None
                            /\ loans'[i].unpaid_fine = loans[i].unpaid_fine]_vars

\* the fine per day was set to 0 while one loan is late and another was
\* returned with a deferred fine counted at the former fine per day
C24_Witness ==
    /\ last.op = "save_settings"
    /\ settings.fine_per_day = 0
    /\ Len(OverdueRows) = 1 /\ OverdueRows[1].fine = 0 /\ OverdueRows[1].days > 0
    /\ \E i \in 1..Len(loans) :
           /\ ~IsActive(loans[i])
           /\ loans[i].unpaid_fine = DefaultFinePerDay

\* C26: edit_book, saved or cancelled, leaves the loans exactly as they were:
\* every loan, returned or not, keeps its book_id, its book_title and every
\* other field, also when the title of its book was changed (a step either
\* keeps every loan or is no edit_book step)
C26_EditBookKeepsLoans ==
    [][\/ /\ Len(loans') = Len(loans)
          /\ \A k \in 1..Len(loans) : loans'[k] = loans[k]
       \/ ~ \E row \in 1..Len(books_table), save \in BOOLEAN, t \in TitleInputs,
               a \in AuthorInputs, p \in PublishInputs, new_total \in CopiesInputs :
               EditBook(row, save, t, a, p, new_total)]_vars

\* a title was changed while one loan of the book is out and another has been
\* returned; both still carry the former title
C26_Witness ==
    /\ last.op = "edit_book" /\ last.out = "ok"
    /\ last.id \in 1..Len(books)
    /\ HasBookId(books[last.id], last.key)
    /\ Get(books[last.id], "title", None) = <<"a">>
    /\ \E i, j \in 1..Len(loans) :
           /\ IsActive(loans[i]) /\ ~IsActive(loans[j])
           /\ loans[i].book_id = last.key /\ loans[j].book_id = last.key
           /\ loans[i].book_title = <<"b", " ", "c">>
           /\ loans[j].book_title = <<"b", " ", "c">>

\* C27: in every state every loan without return date carries the student_id
\* of a member in the registry
C27_ActiveLoanHasMember ==
    \A i \in 1..Len(loans) :
        IsActive(loans[i]) =>
            \E k \in 1..Len(members) :
                Get(members[k], "student_id", None) = loans[i].member_id

\* C28: in every state every loan without return date carries the id of a
\* book in the catalog
C28_ActiveLoanHasBook ==
    \A i \in 1..Len(loans) :
        IsActive(loans[i]) =>
            \E k \in 1..Len(books) :
                Get(books[k], "id", None) = loans[i].book_id

\* C29: a confirmed delete_book that succeeds removes the record shown in the
\* selected row and no other: every other book stays in the catalog, in place
\* and unchanged
C29_DeleteBookRemovesOnlySelected ==
    [][\A row \in 1..Len(books_table) :
        (DeleteBook(row, TRUE) /\ last'.out = "ok") =>
            /\ Len(books') = Len(books) - 1
            /\ \A k \in 1..Len(books') :
                   books'[k] = IF k < row THEN books[k] ELSE books[k + 1]]_vars

\* C30: a saved edit_book writes the new title, author, publish date and
\* total_copies into the book shown in the selected row and leaves every other
\* book as it was
C30_EditBookChangesOnlySelected ==
    [][\A row \in 1..Len(books_table), t \in TitleInputs, a \in AuthorInputs,
          p \in PublishInputs, new_total \in CopiesInputs :
        (EditBook(row, TRUE, t, a, p, new_total) /\ last'.out = "ok") =>
            /\ Len(books') = Len(books)
            /\ Get(books'[row], "title", None) = Strip(t)
            /\ Get(books'[row], "author", None) = Strip(a)
            /\ Get(books'[row], "publish_date", None) = Strip(p)
            /\ TotalCopies(books'[row]) = new_total
            /\ \A k \in 1..Len(books) : k # row => books'[k] = books[k]]_vars

====
